---- MODULE Spec2Model ----
(***************************************************************************)
(* Model of src/src/App.tsx: the todo list kept in React state, persisted  *)
(* either to localStorage (web) or to the host's offline store (Electron), *)
(* with a notification on every change.                                    *)
(***************************************************************************)
EXTENDS Integers, Sequences, FiniteSets, TLC

\* ---------------------------------------------------------------- bounds
MaxTodos == 2      \* addTodo is not taken once the list has this many records
MaxClock == 2      \* Date.now() readings range over 1..MaxClock
MaxLen == 1        \* longest text typed into the input field
MaxInflight == 2   \* host saves that may be in flight at once
MaxReqs == 1       \* permission requests that may be pending at once
MaxDialogs == 1    \* host confirm dialogs that may be open at once

\* ------------------------------------------------------------- text values
\* A text is a sequence of characters; the alphabet has one whitespace
\* character and one character that JSON has to escape.
Chars == {" ", "\""}

RECURSIVE TextsOfLen(_)
TextsOfLen(n) ==
  IF n = 0 THEN {<<>>}
  ELSE {Append(s, c) : s \in TextsOfLen(n - 1), c \in Chars}

Texts == UNION {TextsOfLen(n) : n \in 0..MaxLen}

IsWhitespace(c) == c = " "

RECURSIVE TrimStart(_)
TrimStart(s) ==
  IF s # <<>> /\ IsWhitespace(Head(s)) THEN TrimStart(Tail(s)) ELSE s

RECURSIVE TrimEnd(_)
TrimEnd(s) ==
  IF s # <<>> /\ IsWhitespace(s[Len(s)])
  THEN TrimEnd(SubSeq(s, 1, Len(s) - 1))
  ELSE s

\* a trim that strips nothing
TrimNone(s) == s

\* String.prototype.trim
Trim(s) == TrimEnd(TrimStart(s))

\* ----------------------------------------------------------------- records
Statuses == {"Pending", "Completed"}

Todo(i, t, s) == [id |-> i, text |-> t, status |-> s]

\* ------------------------------------------------------------ JSON text
\* A JSON text is a sequence of lexemes: punctuation, the three member
\* names, decimal digits, the quote, the backslash, the characters of a
\* text, and the word of a status.
DigitLexemes == <<"0", "1", "2", "3", "4", "5", "6", "7", "8", "9">>

DigitSet == {DigitLexemes[i] : i \in 1..10}

DigitValue(d) == (CHOOSE i \in 1..10 : DigitLexemes[i] = d) - 1

RECURSIVE StringifyNumber(_)
StringifyNumber(n) ==
  IF n < 10 THEN <<DigitLexemes[n + 1]>>
  ELSE StringifyNumber(n \div 10) \o <<DigitLexemes[(n % 10) + 1]>>

NeedsEscape(c) == c \in {"\"", "\\"}

\* a serialisation of a string's characters that escapes none of them
EscapeNone(s) == s

RECURSIVE EscapeChars(_)
EscapeChars(s) ==
  IF s = <<>> THEN <<>>
  ELSE (IF NeedsEscape(Head(s)) THEN <<"\\", Head(s)>> ELSE <<Head(s)>>)
       \o EscapeChars(Tail(s))

StringifyString(s) == <<"\"">> \o EscapeChars(s) \o <<"\"">>

StringifyTodo(t) ==
  <<"{", "id:">> \o StringifyNumber(t.id)
  \o <<",", "text:">> \o StringifyString(t.text)
  \o <<",", "status:">> \o StringifyString(<<t.status>>)
  \o <<"}">>

RECURSIVE StringifyItems(_)
StringifyItems(seq) ==
  IF seq = <<>> THEN <<>>
  ELSE IF Len(seq) = 1 THEN StringifyTodo(seq[1])
  ELSE StringifyTodo(Head(seq)) \o <<",">> \o StringifyItems(Tail(seq))

\* JSON.stringify(updatedTodos)
JSONStringify(seq) == <<"[">> \o StringifyItems(seq) \o <<"]">>

\* The parsers return [ok, val, rest]: whether a value was read, the value,
\* and the lexemes after it.
ParseFail == [ok |-> FALSE, val |-> <<>>, rest |-> <<>>]

Expect(toks, lex) == toks # <<>> /\ Head(toks) = lex

RECURSIVE ParseDigits(_, _)
ParseDigits(toks, acc) ==
  IF toks # <<>> /\ Head(toks) \in DigitSet
  THEN ParseDigits(Tail(toks), acc * 10 + DigitValue(Head(toks)))
  ELSE [ok |-> TRUE, val |-> acc, rest |-> toks]

ParseNumber(toks) ==
  IF toks # <<>> /\ Head(toks) \in DigitSet
  THEN ParseDigits(toks, 0)
  ELSE [ok |-> FALSE, val |-> 0, rest |-> <<>>]

RECURSIVE ParseChars(_, _)
ParseChars(toks, acc) ==
  IF toks = <<>> THEN ParseFail
  ELSE IF Head(toks) = "\"" THEN [ok |-> TRUE, val |-> acc, rest |-> Tail(toks)]
  ELSE IF Head(toks) = "\\"
       THEN IF Len(toks) < 2 THEN ParseFail
            ELSE ParseChars(Tail(Tail(toks)), Append(acc, toks[2]))
  ELSE ParseChars(Tail(toks), Append(acc, Head(toks)))

ParseString(toks) ==
  IF Expect(toks, "\"") THEN ParseChars(Tail(toks), <<>>) ELSE ParseFail

ParseTodo(toks) ==
  IF ~(Expect(toks, "{") /\ Expect(Tail(toks), "id:")) THEN ParseFail
  ELSE LET n == ParseNumber(Tail(Tail(toks))) IN
    IF ~(n.ok /\ Expect(n.rest, ",") /\ Expect(Tail(n.rest), "text:"))
    THEN ParseFail
    ELSE LET t == ParseString(Tail(Tail(n.rest))) IN
      IF ~(t.ok /\ Expect(t.rest, ",") /\ Expect(Tail(t.rest), "status:"))
      THEN ParseFail
      ELSE LET s == ParseString(Tail(Tail(t.rest))) IN
        IF ~(s.ok /\ Len(s.val) = 1 /\ Expect(s.rest, "}")) THEN ParseFail
        ELSE [ok |-> TRUE, val |-> <<Todo(n.val, t.val, s.val[1])>>,
              rest |-> Tail(s.rest)]

RECURSIVE ParseItems(_, _)
ParseItems(toks, acc) ==
  LET t == ParseTodo(toks) IN
  IF ~t.ok THEN ParseFail
  ELSE IF Expect(t.rest, ",") THEN ParseItems(Tail(t.rest), acc \o t.val)
  ELSE IF Expect(t.rest, "]")
       THEN [ok |-> TRUE, val |-> acc \o t.val, rest |-> Tail(t.rest)]
  ELSE ParseFail

\* JSON.parse(storedTodos): ok is FALSE where JSON.parse throws SyntaxError
JSONParse(toks) ==
  IF ~Expect(toks, "[") THEN ParseFail
  ELSE LET r == IF Expect(Tail(toks), "]")
                THEN [ok |-> TRUE, val |-> <<>>, rest |-> Tail(Tail(toks))]
                ELSE ParseItems(Tail(toks), <<>>) IN
    IF r.ok /\ r.rest = <<>> THEN r ELSE ParseFail

\* ------------------------------------------------------------------ state
VARIABLES
  host,         \* window.electronAPI is present (fixed for the process)
  todos,        \* useState<Todo[]>: the in-memory sequence
  newTodo,      \* useState(""): the input field
  clock,        \* the latest Date.now() reading
  slot,         \* localStorage item "todos": a JSON text, <<>> when absent
  offlineData,  \* the host's offline store: <<>> or <<todos>> for {todos}
  inflight,     \* saveOfflineData calls issued and not yet completed
  loadState,    \* "pending" until loadTodos has finished, then "done"
  dialogs,      \* host confirm dialogs awaiting an answer
  perm,         \* Notification.permission
  reqs,         \* Notification.requestPermission() promises not yet resolved
  lastSaved,    \* <<seq>>: the sequence handed to the save that last wrote
                \* the store; <<>> before any save
  backendUp,    \* the backend accepts writes: localStorage.setItem does not
                \* throw, saveOfflineData does not reject
  booted,       \* host: what the store held when this App was constructed,
                \* kept while a mutation may have raced the load
  last,         \* the latest handler run: its inputs and its effects
  prev          \* the handler run before it

vars == <<host, todos, newTodo, clock, slot, offlineData, inflight,
          loadState, dialogs, perm, reqs, lastSaved, backendUp, booted,
          last, prev>>

Filters == {"All", "Pending", "Completed"}

Ids == 1..MaxClock

Ran(op, id, text, saves, notes, shown, log) ==
  [op |-> op, id |-> id, text |-> text, pre |-> todos, saves |-> saves,
   notes |-> notes, shown |-> shown, log |-> log, answer |-> FALSE]

\* a handler that announces before it updates and saves
MutationStepsNotifyFirst == <<"showNotification", "setTodos", "saveTodos">>

\* the calls a mutating handler makes on its updated sequence, in the order
\* of its statements: lines 97-99 (deleteTodo) and 130-136 (toggleTodoStatus)
MutationSteps == <<"setTodos", "saveTodos", "showNotification">>

\* the same for addTodo, lines 88-92, which also clears the text field
AddSteps == <<"setTodos", "saveTodos", "setNewTodo", "showNotification">>

NoRun == [op |-> "none", id |-> 0, pre |-> <<>>]

\* what is kept of the run before the latest one: a toggle or a delete, so
\* that two calls in succession can be told
Brief(r) ==
  IF r.op \in {"toggle", "delete"}
  THEN [op |-> r.op, id |-> r.id, pre |-> r.pre]
  ELSE NoRun

Note(title, body) == [title |-> title, body |-> body]

HasId(seq, id) == \E i \in 1..Len(seq) : seq[i].id = id

\* ------------------------------------------------------------ persistence
\* a save that cancels the saves still in flight
SaveTodosLatestOnly(updatedTodos) ==
  IF host
  THEN /\ inflight' = <<updatedTodos>>
       /\ UNCHANGED <<slot, lastSaved>>
  ELSE /\ slot' = JSONStringify(updatedTodos)
       /\ lastSaved' = <<updatedTodos>>
       /\ UNCHANGED inflight

\* a save that is skipped when nothing is left to store
SaveTodosNonEmpty(updatedTodos) ==
  IF updatedTodos = <<>> THEN UNCHANGED <<slot, lastSaved, inflight>>
  ELSE IF host
  THEN /\ inflight' = Append(inflight, updatedTodos)
       /\ UNCHANGED <<slot, lastSaved>>
  ELSE /\ slot' = JSONStringify(updatedTodos)
       /\ lastSaved' = <<updatedTodos>>
       /\ UNCHANGED inflight

\* saveTodos(updatedTodos), lines 70-76. It is async and nobody awaits it:
\* a setItem that throws ends in a rejected promise and the caller goes on.
SaveTodos(updatedTodos) ==
  IF host
  THEN /\ inflight' = Append(inflight, updatedTodos)
       /\ UNCHANGED <<slot, lastSaved>>
  ELSE IF backendUp
  THEN /\ slot' = JSONStringify(updatedTodos)
       /\ lastSaved' = <<updatedTodos>>
       /\ UNCHANGED inflight
  ELSE UNCHANGED <<slot, lastSaved, inflight>>

CanSave == host => Len(inflight) < MaxInflight

\* ------------------------------------------------------------ notification
\* a display that does not look at the permission
ShowWebNotificationAlways(permission, title) == <<title>>

\* showWebNotification, lines 139-143: the titles it displays
ShowWebNotification(permission, title) ==
  IF permission = "granted" THEN <<title>> ELSE <<>>

\* showNotification, lines 145-159: the titles displayed by the call itself
Shown(title) ==
  IF host THEN <<title>>
  ELSE IF perm = "granted" THEN ShowWebNotification(perm, title)
  ELSE <<>>

\* showNotification, lines 145-159: the permission request it leaves pending
ShowNotification(title) ==
  IF ~host /\ perm # "granted"
  THEN reqs' = Append(reqs, title)
  ELSE reqs' = reqs

CanNotify == (~host /\ perm # "granted") => Len(reqs) < MaxReqs

\* the UI handles events once the component is mounted; on the web loadTodos
\* has run to its end by then
Mounted == host \/ loadState = "done"

\* ------------------------------------------------------------------ Init
\* the state after construction (lines 44-46), over the storage found
Constructed ==
  /\ host \in BOOLEAN
  /\ todos = <<>>
  /\ newTodo = <<>>
  /\ clock = 1
  /\ inflight = <<>>
  /\ loadState = "pending"
  /\ dialogs = {}
  /\ perm \in (IF host THEN {"granted"} ELSE {"default", "granted", "denied"})
  /\ reqs = <<>>
  /\ lastSaved = <<>>
  /\ backendUp = TRUE
  /\ booted = <<>>
  /\ last = [op |-> "mount", id |-> 0, text |-> <<>>, pre |-> <<>>,
             saves |-> <<>>, notes |-> <<>>, shown |-> <<>>, log |-> <<>>,
             answer |-> FALSE]
  /\ prev = NoRun

\* first start: nothing has been persisted yet
Init ==
  /\ Constructed
  /\ slot = <<>>
  /\ offlineData = <<>>

\* Persisted payloads that were not written by saveTodos: a JSON text cut
\* short, and a sequence holding a record whose status is not one of the
\* two literals.
OddTodos == <<Todo(1, <<"\"">>, "Done")>>

ForeignSlots ==
  {SubSeq(JSONStringify(<<Todo(1, <<"\"">>, "Pending")>>), 1, 6),
   JSONStringify(OddTodos)}

ForeignData == {<<OddTodos>>}

\* start over a store that something else has written
InitForeign ==
  /\ Constructed
  /\ slot \in (IF host THEN {<<>>} ELSE ForeignSlots)
  /\ offlineData \in (IF host THEN ForeignData ELSE {<<>>})

\* ---------------------------------------------------------------- actions
\* The text field's onChange (line 193) has put text into newTodo and addTodo
\* (lines 78-93) runs on it; here text trims to something.
AddTodoValid ==
  /\ Mounted
  /\ Len(todos) < MaxTodos
  /\ CanSave /\ CanNotify
  /\ \E text \in Texts, now \in clock..MaxClock :
       LET updatedTodos == Append(todos, Todo(now, Trim(text), "Pending"))
       IN /\ Trim(text) # <<>>
          /\ clock' = now
          /\ todos' = updatedTodos
          /\ SaveTodos(updatedTodos)
          /\ newTodo' = <<>>
          /\ ShowNotification("Todo Added")
          /\ last' = Ran("add", now, text, <<updatedTodos>>,
                         <<Note("Todo Added", "added")>>, Shown("Todo Added"),
                         AddSteps)
  /\ prev' = Brief(last)
  /\ UNCHANGED <<host, backendUp, booted, offlineData, loadState, dialogs, perm>>

\* addTodo, lines 78-93, on a text that trims to nothing
AddTodoBlank ==
  /\ Mounted
  /\ \E text \in Texts :
       /\ Trim(text) = <<>>
       /\ newTodo' = text
       /\ last' = Ran("add", 0, text, <<>>, <<>>, <<>>, <<>>)
  /\ prev' = Brief(last)
  /\ UNCHANGED <<host, backendUp, booted, todos, clock, slot, offlineData, inflight, loadState,
                 dialogs, perm, reqs, lastSaved>>

AddTodo == AddTodoValid \/ AddTodoBlank

\* a toggle that only ever completes
FlipStuck(status) == "Completed"

\* the status written by toggleTodoStatus, lines 123-125
Flip(status) == IF status = "Pending" THEN "Completed" ELSE "Pending"

\* a map that flips every record, whatever its id
ToggleMapAll(seq, id) ==
  [i \in 1..Len(seq) |-> [seq[i] EXCEPT !.status = Flip(seq[i].status)]]

\* todos.map(...), lines 119-128
ToggleMap(seq, id) ==
  [i \in 1..Len(seq) |->
     IF seq[i].id = id THEN [seq[i] EXCEPT !.status = Flip(seq[i].status)]
     ELSE seq[i]]

\* updatedTodos.find((todo) => todo.id === id)?.status, line 134
FoundStatus(seq, id) ==
  IF HasId(seq, id)
  THEN seq[CHOOSE i \in 1..Len(seq) :
             seq[i].id = id /\ \A j \in 1..(i - 1) : seq[j].id # id].status
  ELSE "undefined"

\* toggleTodoStatus, lines 118-137
ToggleTodoStatus ==
  /\ Mounted
  /\ CanSave /\ CanNotify
  /\ \E id \in Ids :
       LET updatedTodos == ToggleMap(todos, id)
       IN /\ todos' = updatedTodos
          /\ SaveTodos(updatedTodos)
          /\ ShowNotification("Todo Status Updated")
          /\ last' = Ran("toggle", id, <<>>, <<updatedTodos>>,
                         <<Note("Todo Status Updated",
                                FoundStatus(updatedTodos, id))>>,
                         Shown("Todo Status Updated"), MutationSteps)
  /\ prev' = Brief(last)
  /\ UNCHANGED <<host, backendUp, booted, newTodo, clock, offlineData, loadState,
                 dialogs, perm>>

\* todos.filter((todo) => todo.id !== id), line 96
WithoutId(seq, id) == SelectSeq(seq, LAMBDA t : t.id # id)

\* deleteTodo, lines 95-100; closure is the todos of the render whose
\* deleteTodo is called
DeleteTodo(id, closure) ==
  LET updatedTodos == WithoutId(closure, id)
  IN /\ todos' = updatedTodos
     /\ SaveTodos(updatedTodos)
     /\ ShowNotification("Todo Deleted")

\* the record of a deleteTodo run that followed the answer shouldDelete
DeleteRan(id, closure, shouldDelete) ==
  [Ran("delete", id, <<>>, <<WithoutId(closure, id)>>,
       <<Note("Todo Deleted", "deleted")>>, Shown("Todo Deleted"),
       MutationSteps) EXCEPT !.answer = shouldDelete]

\* a gate that lets every answer through
ConfirmedAlways(shouldDelete) == TRUE

\* if (shouldDelete), line 113
Confirmed(shouldDelete) == shouldDelete

\* confirmDelete on the web, lines 102-116: window.confirm answers at once
ConfirmDeleteWeb ==
  /\ ~host /\ Mounted
  /\ CanSave /\ CanNotify
  /\ \E id \in Ids, shouldDelete \in BOOLEAN :
       IF Confirmed(shouldDelete)
       THEN DeleteTodo(id, todos) /\ last' = DeleteRan(id, todos, shouldDelete)
       ELSE /\ last' = Ran("decline", id, <<>>, <<>>, <<>>, <<>>, <<>>)
            /\ UNCHANGED <<todos, slot, inflight, reqs, lastSaved>>
  /\ prev' = Brief(last)
  /\ UNCHANGED <<host, backendUp, booted, newTodo, clock, offlineData, loadState,
                 dialogs, perm>>

\* confirmDelete on the host, lines 102-107: the dialog is opened and the
\* handler is suspended at the await with the deleteTodo of this render
ConfirmDeleteHost ==
  /\ host
  /\ Cardinality(dialogs) < MaxDialogs
  /\ \E id \in Ids :
       /\ dialogs' = dialogs \cup {[id |-> id, closure |-> todos]}
       /\ last' = Ran("confirm", id, <<>>, <<>>, <<>>, <<>>, <<>>)
  /\ prev' = Brief(last)
  /\ UNCHANGED <<host, backendUp, booted, todos, newTodo, clock, slot, offlineData,
                 inflight, loadState, perm, reqs, lastSaved>>

\* confirmDelete on the host, lines 113-115: the dialog is answered
DialogAnswer ==
  /\ host
  /\ \E d \in dialogs, shouldDelete \in BOOLEAN :
       /\ dialogs' = dialogs \ {d}
       /\ IF Confirmed(shouldDelete)
          THEN /\ CanSave
               /\ DeleteTodo(d.id, d.closure)
               /\ last' = DeleteRan(d.id, d.closure, shouldDelete)
          ELSE /\ last' = Ran("decline", d.id, <<>>, <<>>, <<>>, <<>>, <<>>)
               /\ UNCHANGED <<todos, slot, inflight, reqs, lastSaved>>
  /\ prev' = Brief(last)
  /\ UNCHANGED <<host, backendUp, booted, newTodo, clock, offlineData, loadState, perm>>

ConfirmDelete == ConfirmDeleteWeb \/ ConfirmDeleteHost

\* loadTodos on the web, lines 62-67
LoadTodosWeb ==
  /\ ~host /\ loadState = "pending"
  /\ loadState' = "done"
  /\ LET storedTodos == slot
         parsed == JSONParse(storedTodos)
     IN IF storedTodos # <<>> /\ parsed.ok
        THEN /\ todos' = parsed.val
             /\ last' = Ran("load", 0, <<>>, <<>>, <<>>, <<>>, <<"setTodos">>)
        ELSE IF storedTodos # <<>>
        THEN /\ todos' = todos
             /\ last' = Ran("load", 0, <<>>, <<>>, <<>>, <<>>, <<"throw">>)
        ELSE /\ todos' = todos
             /\ last' = Ran("load", 0, <<>>, <<>>, <<>>, <<>>, <<>>)
  /\ prev' = Brief(last)
  /\ UNCHANGED <<host, backendUp, booted, newTodo, clock, slot, offlineData, inflight,
                 dialogs, perm, reqs, lastSaved>>

\* what the store held at construction stays of interest after the load
\* only if a handler ran while getOfflineData (line 55) was pending
StillRacing == IF last.op = "mount" THEN <<>> ELSE booted

\* loadTodos on the host, lines 53-58: getOfflineData resolves
LoadTodosHost ==
  /\ host /\ loadState = "pending"
  /\ loadState' = "done"
  /\ LET data == offlineData
     IN IF data # <<>>
        THEN /\ todos' = data[1]
             /\ last' = Ran("load", 0, <<>>, <<>>, <<>>, <<>>, <<"setTodos">>)
        ELSE /\ todos' = todos
             /\ last' = Ran("load", 0, <<>>, <<>>, <<>>, <<>>, <<>>)
  /\ booted' = StillRacing
  /\ prev' = Brief(last)
  /\ UNCHANGED <<host, backendUp, newTodo, clock, slot, offlineData,
                 inflight, dialogs, perm, reqs, lastSaved>>

\* loadTodos on the host, lines 59-61: getOfflineData rejects
LoadTodosRejected ==
  /\ host /\ loadState = "pending"
  /\ loadState' = "done"
  /\ last' = Ran("load", 0, <<>>, <<>>, <<>>, <<>>, <<"console.error">>)
  /\ booted' = StillRacing
  /\ prev' = Brief(last)
  /\ UNCHANGED <<host, backendUp, todos, newTodo, clock, slot, offlineData,
                 inflight, dialogs, perm, reqs, lastSaved>>

LoadTodos == LoadTodosWeb \/ LoadTodosHost \/ LoadTodosRejected

\* the host completes one saveOfflineData call, in any order
SaveComplete ==
  /\ host /\ backendUp
  /\ \E i \in 1..Len(inflight) :
       /\ offlineData' = <<inflight[i]>>
       /\ lastSaved' = <<inflight[i]>>
       /\ inflight' = [j \in 1..(Len(inflight) - 1) |->
                         IF j < i THEN inflight[j] ELSE inflight[j + 1]]
  /\ UNCHANGED <<host, backendUp, booted, todos, newTodo, clock, slot, loadState,
                 dialogs, perm, reqs, last, prev>>

\* a rejected save that puts the in-memory sequence back to what is stored
SaveRejectedRollback ==
  /\ host /\ ~backendUp /\ inflight # <<>>
  /\ inflight' = Tail(inflight)
  /\ todos' = IF offlineData = <<>> THEN <<>> ELSE offlineData[1]
  /\ UNCHANGED <<host, backendUp, booted, newTodo, clock, slot,
                 offlineData, loadState, dialogs, perm, reqs, lastSaved,
                 last, prev>>

\* the host rejects one saveOfflineData call: the await in saveTodos (line
\* 72) throws inside the promise nobody awaits, and nothing is written
SaveRejected ==
  /\ host /\ ~backendUp
  /\ \E i \in 1..Len(inflight) :
       inflight' = [j \in 1..(Len(inflight) - 1) |->
                      IF j < i THEN inflight[j] ELSE inflight[j + 1]]
  /\ UNCHANGED <<host, backendUp, booted, todos, newTodo, clock, slot,
                 offlineData, loadState, dialogs, perm, reqs, lastSaved,
                 last, prev>>

\* the backend starts or stops accepting writes (quota reached, host down)
BackendFlips ==
  /\ backendUp' = ~backendUp
  /\ UNCHANGED <<host, booted, todos, newTodo, clock, slot, offlineData,
                 inflight, loadState, dialogs, perm, reqs, lastSaved, last,
                 prev>>

\* the page is reloaded: a fresh App is constructed over the same storage
Restart ==
  /\ loadState = "done"
  /\ todos' = <<>>
  /\ newTodo' = <<>>
  /\ loadState' = "pending"
  /\ dialogs' = {}
  /\ reqs' = <<>>
  /\ last' = Ran("mount", 0, <<>>, <<>>, <<>>, <<>>, <<>>)
  /\ prev' = Brief(last)
  /\ booted' = IF host THEN offlineData ELSE <<>>
  /\ UNCHANGED <<host, backendUp, clock, slot, offlineData, inflight, perm,
                 lastSaved>>

\* enableNotifications, lines 161-176
EnableNotifications ==
  /\ Mounted
  /\ IF host
     THEN /\ reqs' = reqs
          /\ last' = Ran("enable", 0, <<>>, <<>>, <<>>,
                         <<"Notifications Enabled">>, <<>>)
     ELSE /\ Len(reqs) < MaxReqs
          /\ reqs' = Append(reqs, "Notifications Enabled")
          /\ last' = Ran("enable", 0, <<>>, <<>>, <<>>, <<>>,
                         <<"requestPermission">>)
  /\ prev' = Brief(last)
  /\ UNCHANGED <<host, backendUp, booted, todos, newTodo, clock, slot, offlineData,
                 inflight, loadState, dialogs, perm, lastSaved>>

\* a Notification.requestPermission() promise resolves (lines 152-156 and
\* 168-174): the user is asked only while the permission is "default"
PermissionResolve ==
  /\ ~host /\ reqs # <<>>
  /\ \E permission \in {"default", "granted", "denied"} :
       /\ perm # "default" => permission = perm
       /\ perm' = permission
       /\ reqs' = Tail(reqs)
       /\ last' = Ran("permission", 0, <<>>, <<>>, <<>>,
                      ShowWebNotification(permission, Head(reqs)), <<>>)
  /\ prev' = Brief(last)
  /\ UNCHANGED <<host, backendUp, booted, todos, newTodo, clock, slot, offlineData,
                 inflight, loadState, dialogs, lastSaved>>

Next ==
  \/ AddTodo
  \/ ToggleTodoStatus
  \/ ConfirmDelete
  \/ DialogAnswer
  \/ LoadTodos
  \/ SaveComplete
  \/ Restart
  \/ EnableNotifications
  \/ PermissionResolve

Spec == Init /\ [][Next]_vars


\* no promise of the component is pending: the load has finished, every save
\* has completed, no confirm dialog is open, no permission request is out
Idle == loadState = "done" /\ inflight = <<>> /\ dialogs = {} /\ reqs = <<>>

\* One operation at a time: the user acts only when nothing is pending, so
\* that no two operations overlap.
NextSequential ==
  \/ Idle /\ AddTodoValid
  \/ Idle /\ AddTodoBlank
  \/ Idle /\ ToggleTodoStatus
  \/ Idle /\ ConfirmDeleteWeb
  \/ Idle /\ ConfirmDeleteHost
  \/ Idle /\ EnableNotifications
  \/ Idle /\ Restart
  \/ DialogAnswer
  \/ LoadTodos
  \/ SaveComplete
  \/ PermissionResolve

SpecSequential == Init /\ [][NextSequential]_vars

\* the same over a store that something else has written
SpecForeign == InitForeign /\ [][NextSequential]_vars

\* the host backend and its channels are present
InitHost == Init /\ host

\* Adds on the host, each issued whether or not earlier saves have completed.
NextOverlap ==
  \/ AddTodoValid
  \/ LoadTodosHost
  \/ LoadTodosRejected
  \/ SaveComplete

SpecOverlap == InitHost /\ [][NextOverlap]_vars

\* The host with its pending load and its pending confirm dialogs: the user
\* acts while those are pending, but after each save has completed.
NextRacing ==
  \/ inflight = <<>> /\ AddTodoValid
  \/ inflight = <<>> /\ ToggleTodoStatus
  \/ ConfirmDeleteHost
  \/ inflight = <<>> /\ DialogAnswer
  \/ LoadTodosHost
  \/ LoadTodosRejected
  \/ SaveComplete
  \/ Restart

SpecRacing == InitHost /\ [][NextRacing]_vars

\* notifications are displayed at once: no permission request is ever pending
InitGranted == Init /\ perm = "granted"

\* Adds, toggles and deletes, one at a time, with notifications displayed at
\* once.
NextMutations ==
  \/ Idle /\ AddTodoValid
  \/ Idle /\ ToggleTodoStatus
  \/ Idle /\ ConfirmDeleteWeb
  \/ Idle /\ ConfirmDeleteHost
  \/ DialogAnswer
  \/ LoadTodos
  \/ SaveComplete

SpecMutations == InitGranted /\ [][NextMutations]_vars

\* Announcements and permission requests, with any number of requests
\* pending at a time.
NextNotify ==
  \/ AddTodoValid
  \/ EnableNotifications
  \/ LoadTodos
  \/ SaveComplete
  \/ PermissionResolve

SpecNotify == Init /\ [][NextNotify]_vars

\* Adds and toggles, one at a time, over a backend that may refuse writes.
NextFailing ==
  \/ Idle /\ AddTodoValid
  \/ Idle /\ ToggleTodoStatus
  \/ LoadTodos
  \/ SaveComplete
  \/ SaveRejected
  \/ BackendFlips

SpecFailing == InitGranted /\ [][NextFailing]_vars

\* a view that ignores the filter
FilteredTodosAll(f) == todos

\* filteredTodos, lines 178-179
FilteredTodos(f) ==
  IF f = "All" THEN todos ELSE SelectSeq(todos, LAMBDA t : t.status = f)

TypeOK ==
  /\ host \in BOOLEAN
  /\ Len(todos) <= MaxTodos
  /\ \A i \in 1..Len(todos) :
       /\ todos[i].id \in Ids
       /\ todos[i].text \in Texts
       /\ todos[i].status \in Statuses
  /\ newTodo \in Texts
  /\ clock \in Ids
  /\ Len(inflight) <= MaxInflight
  /\ Cardinality(dialogs) <= MaxDialogs
  /\ Len(reqs) <= MaxReqs
  /\ loadState \in {"pending", "done"}
  /\ perm \in {"default", "granted", "denied"}
  /\ backendUp \in BOOLEAN
  /\ Len(booted) <= 1

\* ------------------------------------------------------------ properties
\* the latest step was a run of the handler op
Acted(op) == last' # last /\ last'.op = op

IsBlank(text) == \A i \in 1..Len(text) : text[i] = " "

\* t is s without its leading and trailing whitespace
IsTrimOf(t, s) ==
  /\ t # <<>> => (t[1] # " " /\ t[Len(t)] # " ")
  /\ \E i \in 0..(Len(s) - Len(t)) :
       /\ SubSeq(s, i + 1, i + Len(t)) = t
       /\ \A k \in 1..Len(s) : (k <= i \/ k > i + Len(t)) => s[k] = " "

Count(seq, r) == Cardinality({i \in 1..Len(seq) : seq[i] = r})

\* seq is kept, in order, up to the records with this id, which are gone
IsRemovalOf(seq, id, from) ==
  /\ ~HasId(seq, id)
  /\ \E keep \in SUBSET (1..Len(from)) :
       /\ \A i \in 1..Len(from) : i \in keep <=> from[i].id # id
       /\ Len(seq) = Cardinality(keep)
       /\ \A i \in keep :
            seq[Cardinality({j \in keep : j <= i})] = from[i]

\* C1: addTodo on a text that is not blank appends exactly one record at the
\* tail, Pending, with the trimmed text and an id that no earlier record has,
\* and leaves the earlier records as they were.
C1_AddAppendsFreshRecord ==
  (last.op = "add" /\ ~IsBlank(last.text)) =>
    LET n == Len(last.pre) IN
    /\ Len(todos) = n + 1
    /\ SubSeq(todos, 1, n) = last.pre
    /\ todos[n + 1].status = "Pending"
    /\ IsTrimOf(todos[n + 1].text, last.text)
    /\ ~HasId(last.pre, todos[n + 1].id)

\* C2: addTodo on an empty or whitespace-only text changes nothing: the
\* sequence, the store and the saves in flight stay as they are, and no
\* notification is asked for.
C2_BlankAddIsNoOp ==
  [][(Acted("add") /\ IsBlank(last'.text)) =>
       /\ UNCHANGED <<todos, slot, offlineData, inflight, reqs, lastSaved>>
       /\ last'.saves = <<>>
       /\ last'.notes = <<>>
       /\ last'.shown = <<>>]_vars

C2_Witness ==
  /\ last.op = "add"
  /\ last.text = <<" ">>
  /\ Len(todos) = 1
  /\ todos = last.pre

\* C3: two calls of toggleTodoStatus in succession with an id that is in the
\* sequence leave the sequence as it was before the first.
C3_ToggleTwiceRestores ==
  (/\ last.op = "toggle" /\ prev.op = "toggle"
   /\ last.id = prev.id
   /\ HasId(prev.pre, last.id)) => todos = prev.pre

C3_Witness ==
  /\ last.op = "toggle" /\ prev.op = "toggle"
  /\ last.id = prev.id
  /\ HasId(prev.pre, last.id)
  /\ last.pre # prev.pre
  /\ todos = prev.pre

\* C4: toggleTodoStatus keeps the length, the order, every id and every text,
\* and the status of every record with another id; with an id that is not in
\* the sequence the sequence is unchanged.
C4_ToggleFrame ==
  last.op = "toggle" =>
    /\ Len(todos) = Len(last.pre)
    /\ \A i \in 1..Len(todos) :
         /\ todos[i].id = last.pre[i].id
         /\ todos[i].text = last.pre[i].text
         /\ last.pre[i].id # last.id => todos[i] = last.pre[i]
    /\ ~HasId(last.pre, last.id) => todos = last.pre

C4_Witness ==
  /\ last.op = "toggle"
  /\ Len(last.pre) = 2
  /\ last.pre[1].id # last.id
  /\ last.pre[2].id = last.id
  /\ todos[2].status # last.pre[2].status
  /\ todos[1] = last.pre[1]

\* C5: toggleTodoStatus with an id that is not in the sequence issues no save
\* and asks for no notification.
C5_ToggleUnknownIsNoOp ==
  (last.op = "toggle" /\ ~HasId(last.pre, last.id)) =>
    /\ todos = last.pre
    /\ last.saves = <<>>
    /\ last.notes = <<>>

\* C6: deleteTodo removes the records with the id and keeps every other
\* record of the sequence, in order; a second deleteTodo with the same id
\* leaves the sequence unchanged.
C6_DeleteRemovesOnlyId ==
  /\ last.op = "delete" => IsRemovalOf(todos, last.id, last.pre)
  /\ (last.op = "delete" /\ prev.op = "delete" /\ last.id = prev.id) =>
       todos = last.pre

\* C7: a load that finds the store written by a completed save sets the
\* sequence to the sequence that save was handed, the empty one included.
C7_SaveLoadRoundTrip ==
  [][(Acted("load") /\ last'.log # <<"console.error">> /\ lastSaved # <<>>)
       => todos' = lastSaved[1]]_vars

C7_Witness ==
  /\ ~host
  /\ last.op = "load"
  /\ last.pre = <<>>
  /\ Len(todos) = 2
  /\ todos[1].status = "Completed"
  /\ todos[2].status = "Pending"
  /\ lastSaved = <<todos>>

WellFormed(seq) ==
  \A i \in 1..Len(seq) : seq[i].status \in Statuses

\* the store holds something that is not a sequence of well-formed records
MalformedStore ==
  IF host
  THEN offlineData # <<>> /\ ~WellFormed(offlineData[1])
  ELSE slot # <<>> /\ (~JSONParse(slot).ok \/ ~WellFormed(JSONParse(slot).val))

\* C8: a load over a malformed payload does not throw and leaves the
\* sequence empty.
C8_MalformedLoadsEmpty ==
  [][(Acted("load") /\ MalformedStore) =>
       (todos' = <<>> /\ last'.log # <<"throw">>)]_vars

\* C9: the Pending view and the Completed view share no record and between
\* them hold every record of the sequence as often as the sequence does; the
\* All view is the sequence.
C9_ViewsPartition ==
  LET P == FilteredTodos("Pending")
      C == FilteredTodos("Completed")
  IN /\ \A i \in 1..Len(P) : \A j \in 1..Len(C) : P[i] # C[j]
     /\ \A i \in 1..Len(todos) :
          Count(P, todos[i]) + Count(C, todos[i]) = Count(todos, todos[i])
     /\ Len(P) + Len(C) = Len(todos)
     /\ FilteredTodos("All") = todos

C9_Witness ==
  /\ Len(todos) = 2
  /\ todos[1].status = "Completed"
  /\ todos[2].status = "Pending"
  /\ FilteredTodos("Pending") = <<todos[2]>>
  /\ FilteredTodos("Completed") = <<todos[1]>>

\* C10: no two records of the sequence have the same id.
C10_IdsUnique ==
  \A i, j \in 1..Len(todos) : i # j => todos[i].id # todos[j].id


\* the latest handler run changed the sequence and went on to save it
Mutated ==
  /\ last.op \in {"add", "toggle", "delete"}
  /\ last.saves # <<>>

\* the latest step was such a run
MutatedNow == last' # last /\ Mutated'

\* a occurs once in log, b occurs once, and a comes first
Before(log, a, b) ==
  /\ Cardinality({i \in 1..Len(log) : log[i] = a}) = 1
  /\ Cardinality({i \in 1..Len(log) : log[i] = b}) = 1
  /\ \E i, j \in 1..Len(log) : i < j /\ log[i] = a /\ log[j] = b

C12_SavesWholeSequence ==
  [][MutatedNow =>
       /\ last'.saves = <<todos'>>
       /\ host => inflight' = Append(inflight, todos')
       /\ ~host => slot' = JSONStringify(todos')]_vars

C12_Witness ==
  /\ ~host /\ last.op = "delete"
  /\ last.pre # <<>> /\ todos = <<>>
  /\ slot = JSONStringify(<<>>)


\* the latest step was a write the backend refused: a saveOfflineData call
\* rejected, or a mutation whose setItem threw
SaveFailedNow ==
  /\ ~backendUp
  /\ \/ host /\ Len(inflight') < Len(inflight)
     \/ ~host /\ MutatedNow

\* todos' is todos with one Pending record appended
IsAppendOf(after, before) ==
  /\ Len(after) = Len(before) + 1
  /\ SubSeq(after, 1, Len(before)) = before
  /\ after[Len(after)].status = "Pending"

\* after is before with the status of the records with this id flipped
IsToggleOf(after, id, before) ==
  /\ Len(after) = Len(before)
  /\ \A i \in 1..Len(before) :
       /\ after[i].id = before[i].id
       /\ after[i].text = before[i].text
       /\ (after[i].status # before[i].status) <=> (before[i].id = id)

\* C13: a save that fails leaves the in-memory sequence as the mutation made
\* it and the store as it was; a mutation that comes after a failure works
\* from the in-memory sequence; and a save is issued only by a mutation, never
\* again for a payload that failed.
C13_FailedSaveKeepsMemory ==
  [][
      /\ SaveFailedNow =>
          /\ slot' = slot /\ offlineData' = offlineData
          /\ todos' = (IF host THEN todos ELSE last'.saves[1])
          /\ Len(inflight') <= Len(inflight)
      /\ MutatedNow =>
          /\ (last'.op = "add" => IsAppendOf(todos', todos))
          /\ (last'.op = "toggle" => IsToggleOf(todos', last'.id, todos))
      /\ (Len(inflight') > Len(inflight) \/ slot' # slot) =>
          /\ Mutated' /\ last'.pre = todos /\ last'.saves = <<todos'>>
          /\ host \/ backendUp
    ]_vars

\* both adds were refused by the backend, and the second one built on the
\* record the first had put in memory
C13_Witness ==
  /\ ~backendUp /\ loadState = "done" /\ inflight = <<>>
  /\ slot = <<>> /\ offlineData = <<>>
  /\ Len(todos) = 2 /\ last.op = "add" /\ Len(last.pre) = 1


\* some record of before has an id that no record of after has
LosesARecord(after, before) ==
  \E id \in Ids : HasId(before, id) /\ ~HasId(after, id)

\* C14: deleteTodo runs only on an affirmative answer of the confirmation
\* opened for that id (on the host, the answer closes that dialog); records
\* leave the sequence of a running App in no other way; and a declined
\* confirmation changes neither the in-memory sequence nor what is stored or
\* in flight, and announces nothing.
C14_DeleteOnlyWhenConfirmed ==
  [][
      /\ Acted("delete") =>
          /\ last'.answer
          /\ host => \E d \in dialogs :
                       d.id = last'.id /\ dialogs' = dialogs \ {d}
      /\ LosesARecord(todos', todos) =>
          (Acted("delete") \/ Acted("mount") \/ Acted("load"))
      /\ Acted("decline") =>
          /\ ~last'.answer
          /\ UNCHANGED <<todos, slot, offlineData, inflight, lastSaved, reqs>>
          /\ last'.notes = <<>> /\ last'.shown = <<>>
    ]_vars

\* the host dialog for a record of the sequence was declined
C14_Witness ==
  /\ host /\ last.op = "decline" /\ dialogs = {}
  /\ HasId(todos, last.id) /\ todos = last.pre


\* C15: on the web an announcement is displayed only when the permission is
\* granted as it is displayed: at once by the handler when the permission is
\* already granted, by the resolving request when that resolves to granted,
\* and never while the permission is denied.
C15_DisplayOnlyWhenGranted ==
  [][(~host /\ last' # last) =>
       /\ last'.shown # <<>> => perm' = "granted"
       /\ last'.notes # <<>> =>
            last'.shown = (IF perm = "granted"
                           THEN <<last'.notes[1].title>> ELSE <<>>)
       /\ Acted("permission") =>
            last'.shown = (IF perm' = "granted" THEN <<Head(reqs)>> ELSE <<>>)
       /\ perm = "denied" => (last'.shown = <<>> /\ perm' = "denied")
    ]_vars

\* the permission was undetermined when a record was added, and the
\* announcement was displayed when the request resolved to granted
C15_Witness ==
  /\ ~host /\ last.op = "permission" /\ perm = "granted"
  /\ last.shown = <<"Todo Added">>


\* C16: on the web, once the permission is granted or denied it stays so,
\* and no step issues a Notification.requestPermission() call in that state:
\* requests are issued only while the permission is undetermined.
C16_RequestOnlyWhileUnknown ==
  [][(~host /\ perm \in {"granted", "denied"}) =>
       /\ perm' = perm
       /\ Len(reqs') <= Len(reqs)]_vars


\* seq without its i-th element
RemoveAt(seq, i) ==
  [j \in 1..(Len(seq) - 1) |-> IF j < i THEN seq[j] ELSE seq[j + 1]]

\* C18: on the host a mutation issues its save next to the saves still in
\* flight, cancelling none and waiting for none, and a save leaves the
\* flight only by completing, in any position; so the store can end up, with
\* every save completed, holding an older sequence than the one in memory.
C18_SavesOverlap ==
  [][host =>
       /\ MutatedNow => inflight' = Append(inflight, todos')
       /\ Len(inflight') < Len(inflight) =>
            \E i \in 1..Len(inflight) :
              /\ inflight' = RemoveAt(inflight, i)
              /\ offlineData' = <<inflight[i]>>
    ]_vars

\* every save issued has completed, the latest one carried the in-memory
\* sequence, and the store holds the shorter sequence of an earlier save
C18_Witness ==
  /\ host /\ loadState = "done" /\ inflight = <<>>
  /\ Mutated /\ last.saves = <<todos>>
  /\ offlineData # <<>> /\ offlineData # <<todos>>
  /\ Len(offlineData[1]) < Len(todos)


\* every record of part is a record of whole
AllIn(part, whole) ==
  \A i \in 1..Len(part) : \E j \in 1..Len(whole) : whole[j] = part[i]

\* C19: on the host, once the load has resolved and every save has
\* completed, with no handler run since the load, the records that were in
\* memory when the load resolved (those added while it was pending) are
\* still in memory, and the records the store held at construction are
\* still in the store if a handler ran while the load was pending.
C19_LoadLosesNothing ==
  (host /\ loadState = "done" /\ last.op = "load" /\ inflight = <<>>) =>
    /\ AllIn(last.pre, todos)
    /\ booted # <<>> => (offlineData # <<>> /\ AllIn(booted[1], offlineData[1]))

\* C20: on the host a confirmed delete works on the sequence as it is when
\* the dialog is answered: the sequence and the payload saved are that
\* sequence without the records of the id, so that every other record in
\* memory at that moment, whenever it was added or toggled, is kept.
C20_DeleteAtConfirmationTime ==
  (host /\ last.op = "delete" /\ last.answer) =>
    /\ \A i \in 1..Len(last.pre) :
         last.pre[i].id # last.id => AllIn(<<last.pre[i]>>, todos)
    /\ IsRemovalOf(last.saves[1], last.id, last.pre)
    /\ todos = last.saves[1]

====
